---- MODULE Spec2Model ----
(***************************************************************************)
(* The thermal-stress index engine of wh-weather: calculate_indices,       *)
(* categorize_utci and categorize_heat_index of scripts/utils.py, applied  *)
(* row by row to a table of station observations (DataFrame.apply); and    *)
(* the dashboard around it: the station table process_station_data makes,  *)
(* the Streamlit session connect_to_weather_stations fills, the prompts of *)
(* the Monthly Reports page and the markers of the Weather Hazards page.   *)
(*                                                                         *)
(* Numbers.  A Python float is modelled in fixed point with three          *)
(* decimals: the value x is the integer n = x * 1000.  The Python objects  *)
(* that can sit in a row cell or in a result are                           *)
(*   Fixed(u, t)  the number u + t/1000                                    *)
(*   NaN          float('nan')                                             *)
(*   Inf          float('inf')                                             *)
(*   None         None                                                     *)
(*   NA           the string 'N/A'                                         *)
(* and Absent marks a key the row does not have.  An expression that       *)
(* raises evaluates to Raised(kind).                                       *)
(***************************************************************************)
EXTENDS Integers, Sequences, FiniteSets, TLC

VARIABLES df, i, pc, loc, out, utci_lib, hi_lib, probe, calls, inv, frames,
          stations_data, session, http, monthly, markers

\* the dashboard around the engine: the vendor's station list, the Streamlit
\* session, the requests sent, the Monthly Reports page, the hazard markers
app == <<stations_data, session, http, monthly, markers>>

vars == <<df, i, pc, loc, out, utci_lib, hi_lib, probe, calls, inv, frames, app>>

-----------------------------------------------------------------------------
(* Python values *)

Val(kind, n) == [k |-> kind, n |-> n]
Fixed(units, thousandths) == Val("num", units * 1000 + thousandths)
Milli(n) == Val("num", n)
NaN == Val("nan", 0)
Inf == Val("inf", 0)
None == Val("none", 0)
NA == Val("str", 0)
Absent == Val("absent", 0)
Raised(kind) ==
    Val("raise", CASE kind = "TypeError" -> 1
                   [] kind = "ZeroDivisionError" -> 3
                   [] kind = "ValueError" -> 4
                   [] kind = "OverflowError" -> 5
                   [] OTHER -> 2)
TypeError == Raised("TypeError")
ZeroDivisionError == Raised("ZeroDivisionError")
\* whatever utci or heat_index raises
ModelError == Raised("ModelError")

IsNum(x) == x.k = "num"
IsRaised(x) == x.k = "raise"
IsFloat(x) == x.k \in {"num", "nan", "inf"}

-----------------------------------------------------------------------------
(* The cell contents the observations are drawn from.  Wind speeds run in  *)
(* steps of 0.1 m/s from -0.1 to MaxWindDeci/10, then 2 and 20 m/s.       *)

MaxWindDeci == 5

TempCells == {Absent, None, NaN, NA, Inf, Fixed(20, 0), Fixed(35, 0)}
HumidityCells == {Absent, None, NaN, NA, Fixed(-5, 0), Fixed(40, 0)}
WindCells == {Absent, None, NaN, NA, Fixed(2, 0), Fixed(20, 0)}
                 \cup {Milli(100 * j) : j \in -1..MaxWindDeci}
SolarCells == {Absent, None, NaN, NA, Fixed(0, 0), Fixed(800, 0)}

-----------------------------------------------------------------------------
(* Natural numbers of any size, as little-endian sequences of base-1000    *)
(* digits (TLC's integers are 32 bits wide; tdb_k ** 4 is not).            *)

RECURSIVE BigNorm(_)
BigNorm(a) ==
    IF a = <<>> THEN <<>>
    ELSE IF a[Len(a)] = 0 THEN BigNorm(SubSeq(a, 1, Len(a) - 1))
    ELSE a

RECURSIVE BigCarry(_, _)
BigCarry(a, c) ==
    IF a = <<>>
    THEN IF c = 0 THEN <<>> ELSE <<c % 1000>> \o BigCarry(<<>>, c \div 1000)
    ELSE LET s == a[1] + c IN <<s % 1000>> \o BigCarry(Tail(a), s \div 1000)

BigOfInt(n) == BigCarry(<<>>, n)

BigDigit(a, j) == IF j >= 1 /\ j <= Len(a) THEN a[j] ELSE 0

BigAdd(a, b) ==
    LET n == IF Len(a) > Len(b) THEN Len(a) ELSE Len(b)
    IN BigNorm(BigCarry([j \in 1..n |-> BigDigit(a, j) + BigDigit(b, j)], 0))

RECURSIVE BigConv(_, _, _, _)
BigConv(a, b, k, p) ==
    IF p > k THEN 0
    ELSE BigDigit(a, p) * BigDigit(b, k + 1 - p) + BigConv(a, b, k, p + 1)

BigMul(a, b) ==
    IF a = <<>> \/ b = <<>> THEN <<>>
    ELSE BigNorm(BigCarry([k \in 1..(Len(a) + Len(b) - 1) |-> BigConv(a, b, k, 1)], 0))

RECURSIVE BigPow(_, _)
BigPow(a, m) ==
    IF m = 0 THEN <<1>>
    ELSE IF m % 2 = 0 THEN LET h == BigPow(a, m \div 2) IN BigMul(h, h)
    ELSE BigMul(a, BigPow(a, m - 1))

\* a * 1000^m
BigShift(a, m) == IF a = <<>> THEN <<>> ELSE [j \in 1..m |-> 0] \o a

RECURSIVE BigLeqFrom(_, _, _)
BigLeqFrom(a, b, j) ==
    IF j = 0 THEN TRUE
    ELSE IF a[j] # b[j] THEN a[j] < b[j]
    ELSE BigLeqFrom(a, b, j - 1)

BigLeq(a, b) ==
    IF Len(a) # Len(b) THEN Len(a) < Len(b) ELSE BigLeqFrom(a, b, Len(a))

RECURSIVE BigRem(_, _, _)
\* the remainder left after dividing the digits Len(a)..j of a by d
BigRem(a, d, j) ==
    IF j > Len(a) THEN 0 ELSE (BigRem(a, d, j + 1) * 1000 + a[j]) % d

\* floor(a / d) for a small divisor d
BigDivSmall(a, d) ==
    BigNorm([j \in 1..Len(a) |-> (BigRem(a, d, j + 1) * 1000 + a[j]) \div d])

RECURSIVE BigRootSearch(_, _, _, _)
\* the largest r in lo..hi with r^m <= x (lo^m <= x is assumed)
BigRootSearch(m, x, lo, hi) ==
    IF lo >= hi THEN lo
    ELSE LET mid == (lo + hi + 1) \div 2
         IN IF BigLeq(BigPow(BigOfInt(mid), m), x)
            THEN BigRootSearch(m, x, mid, hi)
            ELSE BigRootSearch(m, x, lo, mid - 1)

RECURSIVE GCD(_, _)
GCD(m, n) == IF n = 0 THEN m ELSE GCD(n, m % n)

-----------------------------------------------------------------------------
(* Python's operators on these values.  The operand that is not a float    *)
(* (None, a string) makes the operation raise TypeError; NaN propagates;   *)
(* Inf absorbs (every constant calculate_indices combines a value with is   *)
(* finite, and every factor positive).                                     *)

PyArith(x, y, n) ==
    IF IsRaised(x) THEN x
    ELSE IF IsRaised(y) THEN y
    ELSE IF ~IsFloat(x) \/ ~IsFloat(y) THEN TypeError
    ELSE IF x.k = "nan" \/ y.k = "nan" THEN NaN
    ELSE IF x.k = "inf" \/ y.k = "inf" THEN Inf
    ELSE Milli(n)

PyAdd(x, y) == PyArith(x, y, x.n + y.n)
PySub(x, y) == PyArith(x, y, x.n - y.n)
PyMul(x, y) == PyArith(x, y, (x.n * y.n) \div 1000)
PyTrueDiv(x, y) ==
    IF IsFloat(x) /\ IsNum(y) /\ y.n = 0 THEN ZeroDivisionError
    ELSE PyArith(x, y, IF y.n = 0 THEN 0 ELSE (x.n * 1000) \div y.n)

\* x < y, x <= y on floats: every comparison with NaN is False
PyLt(x, y) ==
    /\ x.k # "nan" /\ y.k # "nan"
    /\ x.k # "inf"
    /\ (y.k = "inf" \/ x.n < y.n)

PyLe(x, y) ==
    /\ x.k # "nan" /\ y.k # "nan"
    /\ (y.k = "inf" \/ (x.k # "inf" /\ x.n <= y.n))

\* pandas.isna on a scalar
isna(x) == x.k \in {"none", "nan"}

-----------------------------------------------------------------------------
(* categorize_utci and categorize_heat_index *)

\* variant: each boundary compared the other way round (<= for <)
categorize_utci_closed(utci_value) ==
    IF PyLe(utci_value, Fixed(26, 0)) THEN "No heat stress"
    ELSE IF PyLe(utci_value, Fixed(32, 0)) THEN "Moderate heat stress"
    ELSE IF PyLe(utci_value, Fixed(38, 0)) THEN "Strong heat stress"
    ELSE IF PyLe(utci_value, Fixed(46, 0)) THEN "Very strong heat stress"
    ELSE IF PyLt(Fixed(46, 0), utci_value) THEN "Extreme heat stress"
    ELSE "N/A"

\* variant: the lower bound of the second band is strict (26 < utci_value)
categorize_utci_gap(utci_value) ==
    IF PyLt(utci_value, Fixed(26, 0)) THEN "No heat stress"
    ELSE IF PyLt(Fixed(26, 0), utci_value) /\ PyLt(utci_value, Fixed(32, 0))
         THEN "Moderate heat stress"
    ELSE IF PyLe(Fixed(32, 0), utci_value) /\ PyLt(utci_value, Fixed(38, 0))
         THEN "Strong heat stress"
    ELSE IF PyLe(Fixed(38, 0), utci_value) /\ PyLt(utci_value, Fixed(46, 0))
         THEN "Very strong heat stress"
    ELSE IF PyLe(Fixed(46, 0), utci_value) THEN "Extreme heat stress"
    ELSE "N/A"

categorize_utci(utci_value) ==
    IF PyLt(utci_value, Fixed(26, 0)) THEN "No heat stress"
    ELSE IF PyLe(Fixed(26, 0), utci_value) /\ PyLt(utci_value, Fixed(32, 0))
         THEN "Moderate heat stress"
    ELSE IF PyLe(Fixed(32, 0), utci_value) /\ PyLt(utci_value, Fixed(38, 0))
         THEN "Strong heat stress"
    ELSE IF PyLe(Fixed(38, 0), utci_value) /\ PyLt(utci_value, Fixed(46, 0))
         THEN "Very strong heat stress"
    ELSE IF PyLe(Fixed(46, 0), utci_value) THEN "Extreme heat stress"
    ELSE "N/A"

\* variant: each boundary compared the other way round (<= for <)
categorize_heat_index_closed(hi_value) ==
    IF PyLe(hi_value, Fixed(26, 700)) THEN "No heat stress"
    ELSE IF PyLe(hi_value, Fixed(32, 200)) THEN "Caution"
    ELSE IF PyLe(hi_value, Fixed(39, 400)) THEN "Extreme Caution"
    ELSE IF PyLe(hi_value, Fixed(51, 100)) THEN "Danger"
    ELSE IF PyLt(Fixed(51, 100), hi_value) THEN "Extreme Danger"
    ELSE "N/A"

\* variant: the labels of the third and fourth band change places
categorize_heat_index_swapped(hi_value) ==
    IF PyLt(hi_value, Fixed(26, 700)) THEN "No heat stress"
    ELSE IF PyLe(Fixed(26, 700), hi_value) /\ PyLt(hi_value, Fixed(32, 200)) THEN "Caution"
    ELSE IF PyLe(Fixed(32, 200), hi_value) /\ PyLt(hi_value, Fixed(39, 400)) THEN "Danger"
    ELSE IF PyLe(Fixed(39, 400), hi_value) /\ PyLt(hi_value, Fixed(51, 100))
         THEN "Extreme Caution"
    ELSE IF PyLe(Fixed(51, 100), hi_value) THEN "Extreme Danger"
    ELSE "N/A"

categorize_heat_index(hi_value) ==
    IF PyLt(hi_value, Fixed(26, 700)) THEN "No heat stress"
    ELSE IF PyLe(Fixed(26, 700), hi_value) /\ PyLt(hi_value, Fixed(32, 200))
         THEN "Caution"
    ELSE IF PyLe(Fixed(32, 200), hi_value) /\ PyLt(hi_value, Fixed(39, 400))
         THEN "Extreme Caution"
    ELSE IF PyLe(Fixed(39, 400), hi_value) /\ PyLt(hi_value, Fixed(51, 100))
         THEN "Danger"
    ELSE IF PyLe(Fixed(51, 100), hi_value) THEN "Extreme Danger"
    ELSE "N/A"

-----------------------------------------------------------------------------
(* calculate_indices, up to the first call of the numerical library *)

\* row.get(key, None)
row_get(row, key) == IF row[key] = Absent THEN None ELSE row[key]

\* variant: the comparison is made and the value left as it is
clamp_wind_unclamped(v_2m) ==
    IF v_2m = None THEN v_2m
    ELSE IF ~IsFloat(v_2m) THEN TypeError
    ELSE v_2m

\* variant: the clamp written as "not v_2m >= 0.4", which holds of NaN too
clamp_wind_not_ge(v_2m) ==
    IF v_2m = None THEN v_2m
    ELSE IF ~IsFloat(v_2m) THEN TypeError
    ELSE IF ~PyLe(Fixed(0, 400), v_2m) THEN Fixed(0, 400)
    ELSE v_2m

\* variant: a wind of 0 or below is taken for a faulty reading and dropped
clamp_wind_rejecting(v_2m) ==
    IF v_2m = None THEN v_2m
    ELSE IF ~IsFloat(v_2m) THEN TypeError
    ELSE IF PyLe(v_2m, Fixed(0, 0)) THEN None
    ELSE IF PyLt(v_2m, Fixed(0, 400)) THEN Fixed(0, 400)
    ELSE v_2m

\* if v_2m is not None and v_2m < 0.4: v_2m = 0.4
clamp_wind(v_2m) ==
    IF v_2m = None THEN v_2m
    ELSE IF ~IsFloat(v_2m) THEN TypeError
    ELSE IF PyLt(v_2m, Fixed(0, 400)) THEN Fixed(0, 400)
    ELSE v_2m

\* variant: the check leaves the humidity out
missing_essential_no_rh(tdb, rh, v_2m) == isna(tdb) \/ isna(v_2m)

\* variant: the check leaves the wind out
missing_essential_no_wind(tdb, rh, v_2m) == isna(tdb) \/ isna(rh)

\* pd.isna(tdb) or pd.isna(rh) or pd.isna(v_2m)
missing_essential(tdb, rh, v_2m) == isna(tdb) \/ isna(rh) \/ isna(v_2m)

\* variant: the percentage is passed on as it is
rh_fraction_percent(rh) == PyTrueDiv(rh, Fixed(1, 0))

\* rh /= 100
rh_fraction(rh) == PyTrueDiv(rh, Fixed(100, 0))

z_measured == 2
z_target == 10
alpha == Fixed(0, 140)

\* (z_target / z_measured) ** alpha, to three decimals: the largest r with
\* (r/1000)^q <= (z_target/z_measured)^p, where p/q is alpha in lowest terms
wind_profile_factor ==
    LET g == GCD(alpha.n, 1000)
        p == alpha.n \div g
        q == 1000 \div g
    IN Milli(BigRootSearch(q,
                 BigDivSmall(BigShift(BigPow(BigOfInt(z_target), p), q), z_measured ^ p),
                 0, 4095))

\* variant: the wind measured at 2 m is taken for the wind at 10 m
wind_at_10m_unscaled(v_2m) == PyMul(v_2m, Fixed(1, 0))

\* v_10m = v_2m * (z_target / z_measured) ** alpha
wind_at_10m(v_2m) == PyMul(v_2m, wind_profile_factor)

\* variant: only None is replaced (solar_radiation is None for pd.isna)
default_solar_none_only(solar_radiation) ==
    IF solar_radiation = None THEN Fixed(0, 0) ELSE solar_radiation

\* variant: a row without solar radiation takes that of the row before it
default_solar_ffill(solar_radiation) ==
    IF ~isna(solar_radiation) THEN solar_radiation
    ELSE IF i > 1 /\ i <= Len(df) + 1 /\ IsNum(df[i - 1].solar) THEN df[i - 1].solar
    ELSE Fixed(0, 0)

\* if pd.isna(solar_radiation): solar_radiation = 0
default_solar(solar_radiation) ==
    IF isna(solar_radiation) THEN Fixed(0, 0) ELSE solar_radiation

\* sigma = 5.67e-8, held as sigma * 10^10
sigma == 567
a == Fixed(0, 700)
\* variant: the factor f is left out of the radiant load
f_unit == Fixed(1, 0)

f == Fixed(0, 500)

\* ((tdb_k ** 4) + (solar_radiation * a * f / sigma)) ** 0.25 on finite,
\* non-negative operands: tdb_k.n^4 is in 10^-12 K^4, and so is
\* (solar.n * a.n * f.n) * 10^13 / sigma; the root is rounded down to 0.001 K
radiant_k(tdb_k, solar_radiation) ==
    LET t4 == BigPow(BigOfInt(tdb_k.n), 4)
        load == BigMul(BigMul(BigOfInt(solar_radiation.n), BigOfInt(a.n)), BigOfInt(f.n))
        q12 == BigDivSmall(BigShift(BigMul(load, <<10>>), 4), sigma)
    IN BigRootSearch(4, BigAdd(t4, q12), 0, 1048575)

\* radiant_k on the finite temperatures and solar loads of the observations,
\* computed once (@@ makes TLC build the table instead of keeping the rule)
radiant_k_table ==
    [x \in {PyAdd(t, Fixed(273, 150)) : t \in {c \in TempCells : IsNum(c)}}
              \X {c \in SolarCells : IsNum(c)} |-> radiant_k(x[1], x[2])] @@ <<>>

radiant_k_of(tdb_k, solar_radiation) ==
    IF <<tdb_k, solar_radiation>> \in DOMAIN radiant_k_table
    THEN radiant_k_table[<<tdb_k, solar_radiation>>]
    ELSE radiant_k(tdb_k, solar_radiation)

\* tdb_k = tdb + 273.15; tr_k = (...) ** 0.25; tr = tr_k - 273.15
mean_radiant_temperature(tdb, solar_radiation) ==
    LET tdb_k == PyAdd(tdb, Fixed(273, 150))
        load == PyMul(PyMul(solar_radiation, a), f)
        tr_k == PyArith(tdb_k, load, IF IsNum(tdb_k) /\ IsNum(load)
                                     THEN radiant_k_of(tdb_k, solar_radiation) ELSE 0)
    IN PySub(tr_k, Fixed(273, 150))

-----------------------------------------------------------------------------
(* What a call of calculate_indices hands back to DataFrame.apply: the     *)
(* Series it returns, or the exception that leaves it.                     *)

Series(utci, hi, utci_stress, hi_stress) ==
    [UTCI |-> utci, HeatIndex |-> hi, UTCIStress |-> utci_stress, HeatIndexStress |-> hi_stress]

NASeries == Series(NA, NA, "N/A", "N/A")

Returned(series) == [raised |-> FALSE, e |-> None, series |-> series]
Propagated(e) == [raised |-> TRUE, e |-> e, series |-> NASeries]

\* variants: the handler re-raises; it catches the library's errors alone;
\* it catches TypeError alone
except_reraise(e) == Propagated(e)
except_ModelError_only(e) == IF e = ModelError THEN Returned(NASeries) ELSE Propagated(e)
except_TypeError_only(e) == IF e = TypeError THEN Returned(NASeries) ELSE Propagated(e)

\* except Exception as e: return pd.Series({... 'N/A' ...})
except_Exception(e) == Returned(NASeries)

\* The locals of the call once the pre-processing is done, or how it ended.
\*   "missing"  the completeness check returned the N/A Series
\*   "raised"   a statement of the try block raised exc
\*   "ready"    utci(tdb, tr, v_10m, rh) is about to be called
preprocess(row) ==
    LET tdb == row_get(row, "tdb")
        rh0 == row_get(row, "rh")
        v_2m == clamp_wind(row_get(row, "v"))
        solar_radiation == default_solar(row_get(row, "solar"))
        rh == rh_fraction(rh0)
        v_10m == wind_at_10m(v_2m)
        tr == mean_radiant_temperature(tdb, solar_radiation)
        done(st, exc) == [st |-> st, exc |-> exc, tdb |-> tdb, tr |-> tr,
                          v_10m |-> v_10m, rh |-> rh, utci_value |-> None]
    IN IF IsRaised(v_2m) THEN done("raised", v_2m)
       ELSE IF missing_essential(tdb, rh0, v_2m) THEN done("missing", None)
       ELSE IF IsRaised(rh) THEN done("raised", rh)
       ELSE IF IsRaised(v_10m) THEN done("raised", v_10m)
       ELSE IF IsRaised(tr) THEN done("raised", tr)
       ELSE done("ready", None)

\* variant: the categories are taken from the indices rounded to a whole degree
computed_series_rounded(utci_value, hi_value) ==
    LET whole(x) == IF IsNum(x) THEN Milli(((x.n + 500) \div 1000) * 1000) ELSE x
    IN Series(utci_value, hi_value,
              categorize_utci(whole(utci_value)), categorize_heat_index(whole(hi_value)))

\* utci_category = categorize_utci(utci_value); hi_category = ...; return pd.Series({...})
computed_series(utci_value, hi_value) ==
    Series(utci_value, hi_value, categorize_utci(utci_value), categorize_heat_index(hi_value))

\* variant: each index in a try block of its own
after_heat_index_independent(utci_value, hi_outcome) ==
    IF IsRaised(hi_outcome)
    THEN Returned(Series(utci_value, NA, categorize_utci(utci_value), "N/A"))
    ELSE Returned(Series(utci_value, hi_outcome, categorize_utci(utci_value),
                         categorize_heat_index(hi_outcome)))

\* hi_value = heat_index(...) and what follows it, hi_outcome being what
\* the library call gave
after_heat_index(utci_value, hi_outcome) ==
    IF IsRaised(hi_outcome) THEN except_Exception(hi_outcome)
    ELSE Returned(computed_series(utci_value, hi_outcome))

-----------------------------------------------------------------------------
(* The numerical library (pythermalcomfort's utci and heat_index).  Each   *)
(* is a deterministic function of its arguments that returns a float or    *)
(* raises; which, the model leaves open: the answer to a call is chosen    *)
(* when the call is first made with those arguments and kept in utci_lib   *)
(* and hi_lib, so that a later call with the same arguments gets it again. *)

UtciOutcomes == {Fixed(25, 999), Fixed(38, 0), NaN, ModelError}
HiOutcomes == {Fixed(26, 700), Fixed(51, 99), NaN, ModelError}

Known(lib, args) == {c.outcome : c \in {d \in lib : d.args = args}}

Answers(lib, args, outcomes) ==
    IF Known(lib, args) # {} THEN Known(lib, args) ELSE outcomes

-----------------------------------------------------------------------------
(* The state: df is the table apply walks, i the row it is at, pc where    *)
(* the call for that row stands ("row": not entered; "utci", "hi": about   *)
(* to call that library function; "aborted": an exception left the call    *)
(* and ended apply), loc the call's locals, out what the calls so far       *)
(* handed back.  probe is a value given to the two categorizers directly.  *)
(* calls lists the library calls made so far: the row the caller was at,   *)
(* the function called and the arguments it was given.  inv and frames     *)
(* belong to calls that run side by side; they are introduced further on.  *)

Idle == [st |-> "idle", exc |-> None, tdb |-> None, tr |-> None,
         v_10m |-> None, rh |-> None, utci_value |-> None]

NoProbe == [value |-> NaN, utci |-> "?", hi |-> "?"]

Rows == [tdb : TempCells, rh : HumidityCells, v : WindCells, solar : SolarCells]

PairRows == [tdb : {NaN, Fixed(35, 0)}, rh : {Fixed(40, 0)},
             v : {Milli(100 * j) : j \in 0..MaxWindDeci},
             solar : {Absent, None, NaN, Fixed(0, 0), Fixed(800, 0)}]

InitEngine ==
    /\ i = 1 /\ pc = "row" /\ loc = Idle /\ out = <<>>
    /\ utci_lib = {} /\ hi_lib = {}
    /\ probe = NoProbe
    /\ calls = <<>> /\ inv = <<>> /\ frames = <<>>
    /\ stations_data = <<>> /\ session = <<>> /\ http = <<>>
    /\ monthly = <<>> /\ markers = <<>>

\* one observation, any cell contents
Init == InitEngine /\ df \in {<<r>> : r \in Rows}

\* two observations put through the same library
InitPair == InitEngine /\ df \in {<<r1, r2>> : r1 \in PairRows, r2 \in PairRows}

\* a library call as it is kept in calls
Call(row, fn, args) == [row |-> row, fn |-> fn, args |-> args]

\* utci(tdb=tdb, tr=tr, v=v_10m, rh=rh)
utci_args(l) == <<l.tdb, l.tr, l.v_10m, l.rh>>

\* variant: the mean radiant temperature is passed as the air temperature
heat_index_args_tr(l) == <<l.tr, l.rh>>

\* heat_index(tdb=tdb, rh=rh)
heat_index_args(l) == <<l.tdb, l.rh>>

\* variant: the humidity is divided where it sits in the row
row_after_call_inplace(row) ==
    LET v_2m == clamp_wind(row_get(row, "v"))
    IN IF /\ IsNum(row.rh) /\ ~IsRaised(v_2m)
          /\ ~missing_essential(row_get(row, "tdb"), row.rh, v_2m)
       THEN [row EXCEPT !.rh = rh_fraction(row.rh)]
       ELSE row

\* The row when the call is over.  tdb, rh, v_2m and solar_radiation are
\* names bound to the floats row.get returned; v_2m = 0.4, rh /= 100 and
\* solar_radiation = 0 bind the names anew, and nothing is stored in row.
row_after_call(row) == row

Finish(result) ==
    /\ out' = Append(out, result)
    /\ loc' = Idle
    /\ IF result.raised THEN pc' = "aborted" /\ i' = i
       ELSE pc' = "row" /\ i' = i + 1

\* lines 398-433: the row is read, clamped, checked and pre-processed
calculate_indices ==
    /\ pc = "row" /\ i <= Len(df)
    /\ \E p \in {preprocess(df[i])} :
          IF p.st = "ready" THEN pc' = "utci" /\ loc' = p /\ UNCHANGED <<i, out>>
          ELSE IF p.st = "missing" THEN Finish(Returned(NASeries))
          ELSE Finish(except_Exception(p.exc))
    /\ df' = [df EXCEPT ![i] = row_after_call(df[i])]
    /\ UNCHANGED <<utci_lib, hi_lib, probe, calls, inv, frames, app>>

\* line 436: utci_value = utci(tdb=tdb, tr=tr, v=v_10m, rh=rh)
call_utci ==
    /\ pc = "utci"
    /\ LET args == utci_args(loc)
       IN \E o \in Answers(utci_lib, args, UtciOutcomes) :
            /\ utci_lib' = utci_lib \cup {[args |-> args, outcome |-> o]}
            /\ calls' = Append(calls, Call(i, "utci", args))
            /\ IF IsRaised(o) THEN Finish(except_Exception(o))
               ELSE /\ pc' = "hi"
                    /\ loc' = [loc EXCEPT !.utci_value = o]
                    /\ UNCHANGED <<i, out>>
    /\ UNCHANGED <<df, hi_lib, probe, inv, frames, app>>

\* lines 437-448: hi_value = heat_index(tdb=tdb, rh=rh), the categories, the return
call_heat_index ==
    /\ pc = "hi"
    /\ LET args == heat_index_args(loc)
       IN \E o \in Answers(hi_lib, args, HiOutcomes) :
            /\ hi_lib' = hi_lib \cup {[args |-> args, outcome |-> o]}
            /\ calls' = Append(calls, Call(i, "heat_index", args))
            /\ Finish(after_heat_index(loc.utci_value, o))
    /\ UNCHANGED <<df, utci_lib, probe, inv, frames, app>>

Next == calculate_indices \/ call_utci \/ call_heat_index

Spec == Init /\ [][Next]_vars

SpecPair == InitPair /\ [][Next]_vars

TripleRows == [tdb : {NaN, Fixed(35, 0)}, rh : {Fixed(40, 0)},
               v : {Fixed(0, 200), Fixed(0, 400)},
               solar : {Absent, Fixed(0, 0), Fixed(800, 0)}]

\* three observations put through the same library, one call after the other
InitTriple ==
    InitEngine /\ df \in {<<r1, r2, r3>> : r1 \in TripleRows, r2 \in TripleRows, r3 \in TripleRows}

SpecTriple == InitTriple /\ [][Next]_vars

-----------------------------------------------------------------------------
(* Calls that run side by side.  One call of calculate_indices is made for *)
(* each row of df and their steps interleave in any order.  inv[j] is      *)
(* where the call on df[j] stands and what it handed back; frames holds    *)
(* the locals: a Python call has a frame of its own, so the call on df[j]  *)
(* reads and writes frames[frame_of(j)] and no other.  The library is the  *)
(* one utci_lib and hi_lib of the calls made one after the other.          *)

\* variant: the locals are module-level names, one set for all calls
frame_of_shared(j) == 1

\* def calculate_indices(row): the locals belong to the call
frame_of(j) == j

Pending == [raised |-> FALSE, e |-> None, series |-> Series(None, None, "?", "?")]

InitConc ==
    /\ i = 1 /\ pc = "row" /\ loc = Idle /\ out = <<>>
    /\ utci_lib = {} /\ hi_lib = {}
    /\ probe = NoProbe
    /\ calls = <<>>
    /\ stations_data = <<>> /\ session = <<>> /\ http = <<>>
    /\ monthly = <<>> /\ markers = <<>>
    /\ df \in {<<r1, r2>> : r1 \in TripleRows, r2 \in TripleRows}
    /\ inv = [j \in DOMAIN df |-> [pc |-> "row", result |-> Pending]]
    /\ frames = [s \in DOMAIN df |-> Idle]

Frame(j) == frames[frame_of(j)]

Done(j, result) ==
    inv' = [inv EXCEPT ![j] = [pc |-> "done", result |-> result]]

\* lines 398-433 of the call on df[j]
enter_call ==
    \E j \in DOMAIN inv :
        /\ inv[j].pc = "row"
        /\ \E p \in {preprocess(df[j])} :
              IF p.st = "ready"
              THEN /\ frames' = [frames EXCEPT ![frame_of(j)] = p]
                   /\ inv' = [inv EXCEPT ![j].pc = "utci"]
              ELSE /\ Done(j, IF p.st = "missing" THEN Returned(NASeries)
                              ELSE except_Exception(p.exc))
                   /\ UNCHANGED frames
        /\ UNCHANGED <<df, i, pc, loc, out, utci_lib, hi_lib, probe, calls, app>>

\* line 436 of the call on df[j]
concurrent_utci ==
    \E j \in DOMAIN inv :
        /\ inv[j].pc = "utci"
        /\ LET args == utci_args(Frame(j))
           IN \E o \in Answers(utci_lib, args, UtciOutcomes) :
                /\ utci_lib' = utci_lib \cup {[args |-> args, outcome |-> o]}
                /\ calls' = Append(calls, Call(j, "utci", args))
                /\ IF IsRaised(o)
                   THEN Done(j, except_Exception(o)) /\ UNCHANGED frames
                   ELSE /\ frames' = [frames EXCEPT ![frame_of(j)].utci_value = o]
                        /\ inv' = [inv EXCEPT ![j].pc = "hi"]
        /\ UNCHANGED <<df, i, pc, loc, out, hi_lib, probe, app>>

\* lines 437-448 of the call on df[j]
concurrent_heat_index ==
    \E j \in DOMAIN inv :
        /\ inv[j].pc = "hi"
        /\ LET args == heat_index_args(Frame(j))
           IN \E o \in Answers(hi_lib, args, HiOutcomes) :
                /\ hi_lib' = hi_lib \cup {[args |-> args, outcome |-> o]}
                /\ calls' = Append(calls, Call(j, "heat_index", args))
                /\ Done(j, after_heat_index(Frame(j).utci_value, o))
        /\ UNCHANGED <<df, i, pc, loc, out, utci_lib, probe, frames, app>>

NextConc == enter_call \/ concurrent_utci \/ concurrent_heat_index

SpecConc == InitConc /\ [][NextConc]_vars

-----------------------------------------------------------------------------
(* The live pipeline: process_station_data makes the station table from    *)
(* the vendor's station list, and the Weather Hazards page applies         *)
(* calculate_indices to its rows.  A station is the meta part of the       *)
(* vendor's record; Absent marks a key the vendor did not send.            *)

Metas == [airTemp : {Absent, None, Fixed(35, 0)},
          rh : {Absent, Fixed(40, 0)},
          windSpeed : {Absent, Fixed(0, 200), Fixed(2, 0)},
          solarRadiation : {Absent, None, Fixed(0, 0), Fixed(800, 0)}]

\* meta.get(key, 'N/A')
meta_get(meta, key) == IF meta[key] = Absent THEN NA ELSE meta[key]

\* the columns of the station table calculate_indices reads
process_station_data(stations) ==
    [n \in DOMAIN stations |->
        [tdb |-> meta_get(stations[n], "airTemp"),
         rh |-> meta_get(stations[n], "rh"),
         v |-> meta_get(stations[n], "windSpeed"),
         solar |-> meta_get(stations[n], "solarRadiation")]]

InitLive ==
    /\ i = 1 /\ pc = "row" /\ loc = Idle /\ out = <<>>
    /\ utci_lib = {} /\ hi_lib = {}
    /\ probe = NoProbe
    /\ calls = <<>> /\ inv = <<>> /\ frames = <<>>
    /\ session = <<>> /\ http = <<>> /\ monthly = <<>> /\ markers = <<>>
    /\ stations_data \in {<<m1, m2>> : m1 \in Metas, m2 \in Metas}
    /\ df = <<>>

\* station_status = process_station_data(stations_data)
load_station_status ==
    /\ df = <<>> /\ stations_data # <<>>
    /\ df' = process_station_data(stations_data)
    /\ UNCHANGED <<i, pc, loc, out, utci_lib, hi_lib, probe, calls, inv, frames, app>>

NextLive == load_station_status \/ Next

SpecLive == InitLive /\ [][NextLive]_vars

-----------------------------------------------------------------------------
(* The Streamlit session and connect_to_weather_stations.  session is      *)
(* st.session_state as a function on the keys it holds; http lists the     *)
(* requests sent to the vendor and how each ended; out is what the current *)
(* script run has shown (st.error, st.stop, st.success).  i counts the     *)
(* script runs of the session, loc holds the locals of the run, pc its     *)
(* position:                                                               *)
(*   "idle"         no script is running                                   *)
(*   "connect"      connect_to_weather_stations has been called            *)
(*   "token"        get_access_token has been called (line 17)             *)
(*   "stations"     get_weather_stations is about to be called (line 20)   *)
(*   "process"      process_station_data and the coordinates (21-27)       *)
(*   "store_status" line 30                                                *)
(*   "store_count"  line 31                                                *)
(*   "error"        the handler of lines 33-35                             *)
(*   "read"         the caller reads the session after the connect         *)
(*   "KeyError"     the caller read a key the session does not hold        *)

MaxRuns == 3

Station1 == [airTemp |-> Fixed(35, 0), rh |-> Fixed(40, 0),
             windSpeed |-> Fixed(2, 0), solarRadiation |-> Fixed(800, 0)]
Station2 == [airTemp |-> Fixed(35, 0), rh |-> Fixed(40, 0),
             windSpeed |-> Fixed(0, 200), solarRadiation |-> Absent]

\* what the vendor can answer the station request with
StationLists == {<<>>, <<Station1>>, <<Station1, Station2>>}

Has(key) == key \in DOMAIN session

\* st.session_state[key] = value
SetKey(s, key, value) == (key :> value) @@ s

Request(req, ok) == [req |-> req, ok |-> ok]

TokenRequests == {n \in 1..Len(http) : http[n].req = "token"}
StationRequests == {n \in 1..Len(http) : http[n].req = "stations"}

\* variant: connect_to_weather_stations without the check of line 12
is_cached_never(s) == FALSE

\* "access_token" in st.session_state and "station_status" in st.session_state
is_cached(s) == "access_token" \in DOMAIN s /\ "station_status" \in DOMAIN s

\* variant: get_access_token without the check of line 41
token_stored_never(s) == FALSE

\* "access_token" in st.session_state
token_stored(s) == "access_token" \in DOMAIN s

\* variant: the token is handed on and not kept in the session
store_token_skipped(s, access_token) == s

\* st.session_state["access_token"] = access_token (lines 57 and 18)
store_token(s, access_token) == SetKey(s, "access_token", access_token)

\* variant: the handler shows the error and lets the script run on
on_error_shown_only == <<"st.error">>

\* except Exception as e: st.error(str(e)); st.stop()
on_error == <<"st.error", "st.stop">>

Callers == {"page", "get_hourly_data", "direct"}

RunLocals(caller) == [caller |-> caller, access_token |-> 0]

InitSession ==
    /\ i = 1 /\ pc = "idle" /\ loc = RunLocals("page") /\ out = <<>>
    /\ df = <<>> /\ utci_lib = {} /\ hi_lib = {} /\ probe = NoProbe
    /\ calls = <<>> /\ inv = <<>> /\ frames = <<>>
    /\ monthly = <<>> /\ markers = <<>>
    /\ stations_data = <<>> /\ session = <<>> /\ http = <<>>

SessionFrame == <<utci_lib, hi_lib, probe, calls, inv, frames, monthly, markers>>

\* a script run starts: a page (0_Live_Weather.py 13-14 and the like),
\* get_hourly_data (lines 97-98) or a plain call of the function
start_run ==
    /\ pc = "idle" /\ i <= MaxRuns
    /\ \E caller \in Callers :
          /\ loc' = RunLocals(caller)
          /\ pc' = CASE caller = "page" ->
                          IF Has("station_status") THEN "read" ELSE "connect"
                     [] caller = "get_hourly_data" ->
                          IF Has("access_token") /\ Has("station_status")
                          THEN "read" ELSE "connect"
                     [] OTHER -> "connect"
    /\ i' = i + 1 /\ out' = <<>>
    /\ UNCHANGED <<df, stations_data, session, http, SessionFrame>>

\* lines 12-13
connect_to_weather_stations ==
    /\ pc = "connect"
    /\ pc' = IF is_cached(session) THEN "read" ELSE "token"
    /\ UNCHANGED <<i, loc, out, df, stations_data, session, http, SessionFrame>>

\* get_access_token and line 18; the n-th token the vendor issues is n, and
\* a response without an access_token field gives None, here 0
get_access_token ==
    /\ pc = "token"
    /\ IF token_stored(session)
       THEN /\ loc' = [loc EXCEPT !.access_token = session["access_token"]]
            /\ session' = store_token(session, session["access_token"])
            /\ pc' = "stations"
            /\ UNCHANGED http
       ELSE \E answer \in {"token", "no token field", "failed"} :
               /\ http' = Append(http, Request("token", answer # "failed"))
               /\ IF answer = "failed"
                  THEN pc' = "error" /\ UNCHANGED <<loc, session>>
                  ELSE LET access_token == IF answer = "token"
                                           THEN Cardinality(TokenRequests) + 1 ELSE 0
                       IN /\ loc' = [loc EXCEPT !.access_token = access_token]
                          /\ session' = store_token(session, access_token)
                          /\ pc' = "stations"
    /\ UNCHANGED <<i, out, df, stations_data, SessionFrame>>

\* line 20: stations_data = get_weather_stations(access_token); a token of
\* None is refused
get_weather_stations ==
    /\ pc = "stations"
    /\ \E ok \in IF loc.access_token = 0 THEN {FALSE} ELSE {TRUE, FALSE} :
          /\ http' = Append(http, Request("stations", ok))
          /\ IF ok
             THEN pc' = "process" /\ stations_data' \in StationLists
             ELSE pc' = "error" /\ UNCHANGED stations_data
    /\ UNCHANGED <<i, loc, out, df, session, SessionFrame>>

\* lines 21-27: the table is made and the coordinates are parsed; an empty
\* list gives a table without the coordinates column (KeyError), and
\* coordinates that are not numbers raise in astype(float)
make_station_status ==
    /\ pc = "process"
    /\ \E parsed \in IF stations_data = <<>> THEN {FALSE} ELSE {TRUE, FALSE} :
          IF parsed THEN pc' = "store_status" /\ df' = process_station_data(stations_data)
          ELSE pc' = "error" /\ UNCHANGED df
    /\ UNCHANGED <<i, loc, out, stations_data, session, http, SessionFrame>>

\* line 30
store_station_status ==
    /\ pc = "store_status"
    /\ session' = SetKey(session, "station_status", df)
    /\ pc' = "store_count"
    /\ UNCHANGED <<i, loc, out, df, stations_data, http, SessionFrame>>

\* line 31
store_station_count ==
    /\ pc = "store_count"
    /\ session' = SetKey(session, "station_count", Len(stations_data))
    /\ pc' = "read"
    /\ UNCHANGED <<i, loc, out, df, stations_data, http, SessionFrame>>

\* lines 33-35; st.stop() ends the script run
report_error ==
    /\ pc = "error"
    /\ out' = out \o on_error
    /\ pc' = IF "st.stop" \in {on_error[n] : n \in DOMAIN on_error} THEN "idle" ELSE "read"
    /\ UNCHANGED <<i, loc, df, stations_data, session, http, SessionFrame>>

\* what the caller reads next: a page reads station_count if station_status
\* is there (0_Live_Weather.py 17-19), get_hourly_data reads the three keys
\* (lines 100-102), a plain call reads nothing
KeysRead(caller) ==
    CASE caller = "page" ->
            IF Has("station_status") THEN {"station_status", "station_count"} ELSE {}
      [] caller = "get_hourly_data" -> {"access_token", "station_status", "station_count"}
      [] OTHER -> {}

read_session ==
    /\ pc = "read"
    /\ IF KeysRead(loc.caller) \subseteq DOMAIN session
       THEN /\ pc' = "idle"
            /\ out' = IF KeysRead(loc.caller) # {} THEN Append(out, "st.success") ELSE out
       ELSE pc' = "KeyError" /\ UNCHANGED out
    /\ UNCHANGED <<i, loc, df, stations_data, session, http, SessionFrame>>

NextSession ==
    \/ start_run \/ connect_to_weather_stations \/ get_access_token
    \/ get_weather_stations \/ make_station_status \/ store_station_status
    \/ store_station_count \/ report_error \/ read_session

SpecSession == InitSession /\ [][NextSession]_vars

-----------------------------------------------------------------------------
(* The Monthly Reports page.  monthly holds what the user has chosen: the  *)
(* month in the selectbox, the button pressed for this script run ("none"  *)
(* if the run was started by something else), the number of script runs so *)
(* far, and whether a run has yet deleted a prompt that was not empty.     *)
(* session is st.session_state as before; a stored prompt is written as    *)
(* the month it was generated for, the empty prompt as "".  pc is the      *)
(* position of the script run: "idle", "month" (lines 59-76),              *)
(* "temperature", "precipitation", "wind" (the three sections).  out lists *)
(* the prompts the run has displayed.                                      *)

MaxInteractions == 4

Months == {"October 2026", "September 2026"}

PromptKey(section) ==
    CASE section = "temperature" -> "combined_temp_analysis_prompt"
      [] section = "precipitation" -> "precipitation_analysis_prompt"
      [] OTHER -> "wind_analysis_prompt"

Sections == <<"temperature", "precipitation", "wind">>

SectionAfter(section) ==
    CASE section = "temperature" -> "precipitation"
      [] section = "precipitation" -> "wind"
      [] OTHER -> "idle"

\* variant: the list of keys to clear lacks the wind prompt
keys_to_clear_but_wind == {"combined_temp_analysis_prompt", "precipitation_analysis_prompt"}

\* lines 66-70
keys_to_clear ==
    {"combined_temp_analysis_prompt", "precipitation_analysis_prompt", "wind_analysis_prompt"}

\* del st.session_state[key] for the keys given
DelKeys(s, keys) == [k \in DOMAIN s \ keys |-> s[k]]

\* lines 60-76: the session after the check of the selected month
month_changed(s, selected_month) ==
    LET s1 == IF "previous_month" \in DOMAIN s THEN s ELSE SetKey(s, "previous_month", "")
    IN IF selected_month # s1["previous_month"]
       THEN SetKey(DelKeys(s1, keys_to_clear), "previous_month", selected_month)
       ELSE s1

InitMonthly ==
    /\ i = 1 /\ pc = "idle" /\ loc = Idle /\ out = <<>>
    /\ df = <<>> /\ utci_lib = {} /\ hi_lib = {} /\ probe = NoProbe
    /\ calls = <<>> /\ inv = <<>> /\ frames = <<>>
    /\ stations_data = <<>> /\ http = <<>> /\ markers = <<>>
    /\ session = <<>>
    /\ monthly \in [selected : Months, button : {"none"}, runs : {0}, cleared : {FALSE}]

MonthlyFrame == <<i, loc, df, utci_lib, hi_lib, probe, calls, inv, frames, stations_data, http, markers>>

\* the page is opened, the user picks a month or presses the button of a
\* section; Streamlit ends the script run in progress, if any, and starts one
interact ==
    /\ pc # "month" /\ monthly.runs < MaxInteractions
    /\ \E m \in Months, b \in {"none"} \cup {Sections[n] : n \in DOMAIN Sections} :
          /\ b # "none" => (m = monthly.selected /\ PromptKey(b) \in DOMAIN session)
          /\ monthly' = [monthly EXCEPT !.selected = m, !.button = b, !.runs = @ + 1]
    /\ pc' = "month" /\ out' = <<>>
    /\ UNCHANGED <<session, MonthlyFrame>>

\* lines 59-76
check_month ==
    /\ pc = "month"
    /\ session' = month_changed(session, monthly.selected)
    /\ monthly' = [monthly EXCEPT !.cleared =
                      @ \/ \E k \in keys_to_clear \cap DOMAIN session :
                               session[k] # "" /\ k \notin DOMAIN session']
    /\ pc' = "temperature"
    /\ UNCHANGED <<out, MonthlyFrame>>

\* lines 108-184, 765-823, 1000-1077: the key is made if it is missing, the
\* prompt is generated for the selected month if the button of the section
\* was pressed, and a prompt that is not empty is displayed
run_section ==
    /\ pc \in {Sections[n] : n \in DOMAIN Sections}
    /\ LET key == PromptKey(pc)
           s1 == IF key \in DOMAIN session THEN session ELSE SetKey(session, key, "")
           s2 == IF monthly.button = pc THEN SetKey(s1, key, monthly.selected) ELSE s1
       IN /\ session' = s2
          /\ out' = IF s2[key] # "" THEN Append(out, [key |-> key, prompt |-> s2[key]]) ELSE out
    /\ pc' = SectionAfter(pc)
    /\ UNCHANGED <<monthly, MonthlyFrame>>

\* an exception in the charts of a section ends the script run
section_raises ==
    /\ pc \in {Sections[n] : n \in DOMAIN Sections}
    /\ pc' = "idle"
    /\ UNCHANGED <<session, monthly, out, MonthlyFrame>>

NextMonthly == interact \/ check_month \/ run_section \/ section_raises

SpecMonthly == InitMonthly /\ [][NextMonthly]_vars

-----------------------------------------------------------------------------
(* The markers of the Weather Hazards page.  When calculate_indices has    *)
(* been applied to the table, the page walks the stations and makes for    *)
(* each a marker out of the index and the stress of the selected hazard.   *)
(* markers lists the markers made so far; a marker whose construction      *)
(* raised holds the exception as its display value and ends the script.    *)

HazardTypes == {"Heat Index (HI)", "Universal Thermal Climate Index (UTCI)"}

\* lines 53-58: the index and the stress of the selected hazard
hazard_value(series, hazard_type) ==
    IF hazard_type = "Heat Index (HI)" THEN series.HeatIndex ELSE series.UTCI
hazard_stress(series, hazard_type) ==
    IF hazard_type = "Heat Index (HI)" THEN series.HeatIndexStress ELSE series.UTCIStress

\* round(value, 0) of a float: to the nearest whole number, a half to the
\* even one
round_half_even(n) ==
    LET q == n \div 1000
        r == n % 1000
    IN IF r < 500 THEN q
       ELSE IF r > 500 THEN q + 1
       ELSE IF q % 2 = 0 THEN q ELSE q + 1

\* lines 80-83: int(round(value, 0)) if isinstance(value, (int, float)) else
\* "N/A"; int() of NaN raises ValueError and of infinity OverflowError
display_value(value) ==
    IF IsNum(value) THEN Fixed(round_half_even(value.n), 0)
    ELSE IF value = NaN THEN Raised("ValueError")
    ELSE IF value = Inf THEN Raised("OverflowError")
    ELSE NA

\* lines 93-100
marker_color(stress) ==
    IF stress \in {"No heat stress", "No significant risk"} THEN "green"
    ELSE IF stress \in {"Moderate heat stress", "Caution"} THEN "yellow"
    ELSE IF stress \in {"Strong heat stress", "Extreme Caution"} THEN "orange"
    ELSE IF stress \in {"Very strong heat stress", "Danger"} THEN "red"
    ELSE IF stress \in {"Extreme heat stress", "Extreme Danger"} THEN "darkred"
    ELSE "grey"

Marker(series, hazard_type) ==
    LET shown == display_value(hazard_value(series, hazard_type))
    IN [hazard |-> hazard_type,
        value |-> hazard_value(series, hazard_type),
        stress |-> hazard_stress(series, hazard_type),
        display |-> shown,
        color |-> IF IsRaised(shown) THEN "none"
                  ELSE marker_color(hazard_stress(series, hazard_type))]

MarkersRaised == \E n \in DOMAIN markers : IsRaised(markers[n].display)

\* lines 75-120, one turn of the loop over the stations
add_marker ==
    /\ pc = "row" /\ i > Len(df)
    /\ Len(markers) < Len(out) /\ ~MarkersRaised
    /\ \E hazard_type \in HazardTypes :
          markers' = Append(markers, Marker(out[Len(markers) + 1].series, hazard_type))
    /\ UNCHANGED <<df, i, pc, loc, out, utci_lib, hi_lib, probe, calls, inv, frames,
                   stations_data, session, http, monthly>>

NextHazards == Next \/ add_marker

SpecHazards == Init /\ [][NextHazards]_vars

-----------------------------------------------------------------------------
(* The two categorizers as functions of their argument alone: the probe    *)
(* value is every tenth of a degree from ProbeMin to ProbeMax, the values  *)
(* 0.001 and 0.002 to either side of each, NaN or Inf.                     *)

ProbeMin == 20
ProbeMax == 55

ProbeValues ==
    {Milli(100 * j + d) : j \in (10 * ProbeMin)..(10 * ProbeMax), d \in {-2, -1, 0, 1, 2}}
        \cup {NaN, Inf}

InitCat ==
    /\ df = <<>> /\ i = 1 /\ pc = "row" /\ loc = Idle /\ out = <<>>
    /\ utci_lib = {} /\ hi_lib = {}
    /\ calls = <<>> /\ inv = <<>> /\ frames = <<>>
    /\ stations_data = <<>> /\ session = <<>> /\ http = <<>>
    /\ monthly = <<>> /\ markers = <<>>
    /\ probe \in [value : ProbeValues, utci : {"?"}, hi : {"?"}]

probe_categorize_utci ==
    /\ probe.utci = "?"
    /\ probe' = [probe EXCEPT !.utci = categorize_utci(probe.value)]
    /\ UNCHANGED <<df, i, pc, loc, out, utci_lib, hi_lib, calls, inv, frames, app>>

probe_categorize_heat_index ==
    /\ probe.hi = "?"
    /\ probe' = [probe EXCEPT !.hi = categorize_heat_index(probe.value)]
    /\ UNCHANGED <<df, i, pc, loc, out, utci_lib, hi_lib, calls, inv, frames, app>>

NextCat == probe_categorize_utci \/ probe_categorize_heat_index

SpecCat == InitCat /\ [][NextCat]_vars

-----------------------------------------------------------------------------
(* The categorizers on two values side by side: probe holds the values x   *)
(* and y and what each categorizer made of them.  The values are the       *)
(* thresholds of both tables, 0.001 to either side of each, ProbeMin,      *)
(* ProbeMax, NaN and Inf.                                                  *)

Thresholds == {26000, 32000, 38000, 46000, 26700, 32200, 39400, 51100}

OrderValues ==
    {Milli(t + d) : t \in Thresholds, d \in {-1, 0, 1}}
        \cup {Fixed(ProbeMin, 0), Fixed(ProbeMax, 0), NaN, Inf}

Uncategorized == [utci |-> "?", hi |-> "?"]

InitOrder ==
    /\ df = <<>> /\ i = 1 /\ pc = "row" /\ loc = Idle /\ out = <<>>
    /\ utci_lib = {} /\ hi_lib = {}
    /\ calls = <<>> /\ inv = <<>> /\ frames = <<>>
    /\ stations_data = <<>> /\ session = <<>> /\ http = <<>>
    /\ monthly = <<>> /\ markers = <<>>
    /\ probe \in [x : OrderValues, y : OrderValues,
                  of_x : {Uncategorized}, of_y : {Uncategorized}]

categorized(value) ==
    [utci |-> categorize_utci(value), hi |-> categorize_heat_index(value)]

categorize_x ==
    /\ probe.of_x = Uncategorized
    /\ probe' = [probe EXCEPT !.of_x = categorized(probe.x)]
    /\ UNCHANGED <<df, i, pc, loc, out, utci_lib, hi_lib, calls, inv, frames, app>>

categorize_y ==
    /\ probe.of_y = Uncategorized
    /\ probe' = [probe EXCEPT !.of_y = categorized(probe.y)]
    /\ UNCHANGED <<df, i, pc, loc, out, utci_lib, hi_lib, calls, inv, frames, app>>

NextOrder == categorize_x \/ categorize_y

SpecOrder == InitOrder /\ [][NextOrder]_vars

-----------------------------------------------------------------------------
(* Properties *)

Keys == {"tdb", "rh", "v", "solar"}

\* the calls that have ended: out[j] is what the call on df[j] handed back
Calls == 1..Len(out)

Cell(j, key) == row_get(df[j], key)

\* the rows j and k hold the same cells, but for the one named
SameBut(j, k, key) == \A c \in Keys \ {key} : df[j][c] = df[k][c]

\* the arguments the call on df[j] gives the library, if it gets that far
Reaches(j) == preprocess(df[j]).st = "ready"
UtciArgs(j) == LET p == preprocess(df[j]) IN <<p.tdb, p.tr, p.v_10m, p.rh>>
HiArgs(j) == LET p == preprocess(df[j]) IN <<p.tdb, p.rh>>
UtciAnswers(j) == Known(utci_lib, UtciArgs(j))
HiAnswers(j) == Known(hi_lib, HiArgs(j))

AllUnavailable(j) == out[j] = Returned(NASeries)

\* C1: a call of calculate_indices, whatever the row holds and whatever the
\* two library functions do, comes to an end, hands back a Series of the four
\* fields and lets no exception out.
C1_Totality ==
    /\ pc # "aborted"
    /\ i <= Len(df) => ENABLED Next
    /\ \A j \in Calls :
         /\ ~out[j].raised
         /\ DOMAIN out[j].series = {"UTCI", "HeatIndex", "UTCIStress", "HeatIndexStress"}

C1_Witness ==
    /\ Len(out) = 1
    /\ df[1] = [tdb |-> Inf, rh |-> Fixed(-5, 0), v |-> Milli(-100), solar |-> Absent]
    /\ \E c \in hi_lib : c.outcome = ModelError
    /\ ~out[1].raised

\* C2: when the air temperature, the relative humidity or the wind speed of
\* the row is None or NaN, the call returns the Series of four 'N/A',
\* whatever the other cells hold.
C2_MissingField ==
    \A j \in Calls :
        (isna(Cell(j, "tdb")) \/ isna(Cell(j, "rh")) \/ isna(Cell(j, "v")))
            => AllUnavailable(j)

C2_Witness ==
    /\ Len(out) = 1
    /\ df[1].rh = NaN /\ IsNum(df[1].tdb) /\ IsNum(df[1].v)
    /\ df[1].solar = Fixed(800, 0)
    /\ AllUnavailable(1)

\* C3: when the air temperature, the relative humidity or the wind speed of
\* the row is the string 'N/A', the call returns the Series of four 'N/A' and
\* raises nothing.
C3_NonNumericField ==
    \A j \in Calls :
        (Cell(j, "tdb") = NA \/ Cell(j, "rh") = NA \/ Cell(j, "v") = NA)
            => AllUnavailable(j)

C3_Witness ==
    /\ Len(out) = 1
    /\ df[1].tdb = NA /\ IsNum(df[1].rh) /\ IsNum(df[1].v) /\ IsNum(df[1].solar)
    /\ AllUnavailable(1)

\* C4: in every Series returned, UTCI is 'N/A' exactly when UTCI Stress is
\* 'N/A', and Heat Index is 'N/A' exactly when Heat Index Stress is 'N/A'.
C4_PairInvariant ==
    \A j \in Calls :
        /\ out[j].series.UTCI = NA <=> out[j].series.UTCIStress = "N/A"
        /\ out[j].series.HeatIndex = NA <=> out[j].series.HeatIndexStress = "N/A"

\* C5: when utci or heat_index raises for a row that passed the completeness
\* check, the call returns the Series of four 'N/A'.
C5_FailureContained ==
    \A j \in Calls :
        (Reaches(j) /\ (ModelError \in UtciAnswers(j) \/ ModelError \in HiAnswers(j)))
            => AllUnavailable(j)

C5_Witness ==
    /\ Len(out) = 1
    /\ Reaches(1)
    /\ ModelError \in UtciAnswers(1)
    /\ AllUnavailable(1)

\* C6, as claimed: when one library function raises for a row and the other
\* returns a value for it, the pair of the other is returned as computed.
C6_Independent ==
    \A j \in Calls :
        Reaches(j) =>
            /\ \A h \in HiAnswers(j) :
                 (ModelError \in UtciAnswers(j) /\ IsFloat(h))
                     => /\ out[j].series.HeatIndex = h
                        /\ out[j].series.HeatIndexStress = categorize_heat_index(h)
            /\ \A u \in UtciAnswers(j) :
                 (ModelError \in HiAnswers(j) /\ IsFloat(u))
                     => /\ out[j].series.UTCI = u
                        /\ out[j].series.UTCIStress = categorize_utci(u)

\* C6, amended: the two pairs are returned or withheld together: in every
\* Series UTCI is 'N/A' exactly when Heat Index is, and when either library
\* function raises for the row the index of the other is 'N/A' too.
C6_PairsFailTogether ==
    \A j \in Calls :
        /\ out[j].series.UTCI = NA <=> out[j].series.HeatIndex = NA
        /\ (Reaches(j) /\ ModelError \in HiAnswers(j)) => out[j].series.UTCI = NA
        /\ (Reaches(j) /\ ModelError \in UtciAnswers(j)) => out[j].series.HeatIndex = NA

C6_Witness ==
    /\ Len(out) = 1
    /\ Reaches(1)
    /\ \E u \in UtciAnswers(1) : IsNum(u)
    /\ ModelError \in HiAnswers(1)
    /\ out[1].series.UTCI = NA /\ out[1].series.HeatIndex = NA

\* C7: two rows that differ in the wind speed alone, one with a wind speed
\* strictly between 0 and 0.4 m/s and one with exactly 0.4 m/s, get the same
\* Series.
C7_WindClamp ==
    \A j \in Calls, k \in Calls :
        ( /\ SameBut(j, k, "v")
          /\ IsNum(df[j].v) /\ df[j].v.n > 0 /\ df[j].v.n < 400
          /\ df[k].v = Fixed(0, 400) )
            => out[j] = out[k]

C7_Witness ==
    \E j \in Calls, k \in Calls :
        /\ SameBut(j, k, "v")
        /\ df[j].v = Fixed(0, 200) /\ df[k].v = Fixed(0, 400)
        /\ IsNum(out[j].series.UTCI) /\ IsNum(out[k].series.UTCI)

\* C8: two rows that differ in the solar radiation alone, one without it (no
\* such key, None or NaN) and one with 0, get the same Series.
C8_SolarDefault ==
    \A j \in Calls, k \in Calls :
        ( /\ SameBut(j, k, "solar")
          /\ df[j].solar \in {Absent, None, NaN}
          /\ df[k].solar = Fixed(0, 0) )
            => out[j] = out[k]

C8_Witness ==
    \E j \in Calls, k \in Calls :
        /\ SameBut(j, k, "solar")
        /\ df[j].solar = NaN /\ df[k].solar = Fixed(0, 0)
        /\ IsNum(out[j].series.UTCI) /\ IsNum(out[k].series.UTCI)

\* the table of UTCI stress categories, in thousandths of a degree
UtciTable(n) ==
    IF n < 26000 THEN "No heat stress"
    ELSE IF n < 32000 THEN "Moderate heat stress"
    ELSE IF n < 38000 THEN "Strong heat stress"
    ELSE IF n < 46000 THEN "Very strong heat stress"
    ELSE "Extreme heat stress"

\* the table of Heat Index stress categories, in thousandths of a degree
HeatIndexTable(n) ==
    IF n < 26700 THEN "No heat stress"
    ELSE IF n < 32200 THEN "Caution"
    ELSE IF n < 39400 THEN "Extreme Caution"
    ELSE IF n < 51100 THEN "Danger"
    ELSE "Extreme Danger"

\* C9: categorize_utci gives every number the category of the half-open
\* range of the UTCI table it lies in; 26, 32, 38 and 46 open the higher band.
C9_UtciTable ==
    (probe.utci # "?" /\ IsNum(probe.value)) => probe.utci = UtciTable(probe.value.n)

C9_Witness == probe.value = Fixed(26, 0) /\ probe.utci = "Moderate heat stress"

\* C10: categorize_heat_index gives every number the category of the
\* half-open range of the Heat Index table it lies in; 26.7, 32.2, 39.4 and
\* 51.1 open the higher band.
C10_HeatIndexTable ==
    (probe.hi # "?" /\ IsNum(probe.value)) => probe.hi = HeatIndexTable(probe.value.n)

C10_Witness == probe.value = Fixed(51, 100) /\ probe.hi = "Extreme Danger"

\* C11: whenever a call hands back a number as the UTCI, the UTCI Stress
\* beside it is the category of the UTCI table whose range holds that very
\* number, and the Heat Index Stress is the category of the Heat Index table
\* whose range holds the Heat Index handed back.
C11_RangeConsistent ==
    \A j \in Calls :
        /\ IsNum(out[j].series.UTCI)
              => out[j].series.UTCIStress = UtciTable(out[j].series.UTCI.n)
        /\ IsNum(out[j].series.HeatIndex)
              => out[j].series.HeatIndexStress = HeatIndexTable(out[j].series.HeatIndex.n)

C11_Witness ==
    \E j \in Calls :
        /\ out[j].series.UTCI = Fixed(25, 999)
        /\ out[j].series.UTCIStress = "No heat stress"
        /\ out[j].series.HeatIndex = Fixed(51, 99)
        /\ out[j].series.HeatIndexStress = "Danger"

\* the library calls made so far by the call on df[j]
CallsOf(j, fn) == {calls[n] : n \in {m \in 1..Len(calls) : calls[m].row = j /\ calls[m].fn = fn}}

\* C12: the wind speed every call of utci is given is the wind of the row,
\* raised to 0.4 m/s where it is below, times 5^0.14 = 1.252 (to three
\* decimals), the same factor for every row; it is neither the wind of the
\* row nor the clamped wind itself.
C12_WindAtTenMetres ==
    \A n \in 1..Len(calls) :
        calls[n].fn = "utci" =>
            LET v == Cell(calls[n].row, "v")
                v_2m == IF v.n < 400 THEN 400 ELSE v.n
            IN /\ IsNum(v)
               /\ calls[n].args[3] = Milli((v_2m * 1252) \div 1000)
               /\ calls[n].args[3] # v
               /\ calls[n].args[3] # Milli(v_2m)

C12_Witness ==
    \E c \in CallsOf(1, "utci") : df[1].v = Fixed(2, 0) /\ c.args[3] = Milli(2504)

\* C13: utci is called with the air temperature of the row as it stands, the
\* mean radiant temperature estimated from it and the solar radiation, the
\* wind at 10 m and the humidity of the row over 100; heat_index is called
\* with the same air temperature and the same fraction; the percentage
\* itself is passed to neither.
C13_ModelArguments ==
    \A n \in 1..Len(calls) :
        LET c == calls[n]
            tdb == Cell(c.row, "tdb")
            rh == Cell(c.row, "rh")
            fraction == Milli(rh.n \div 100)
        IN /\ IsNum(rh)
           /\ rh.n # 0 => fraction # rh
           /\ c.fn = "utci" =>
                 c.args = << tdb,
                             mean_radiant_temperature(tdb, default_solar(Cell(c.row, "solar"))),
                             wind_at_10m(clamp_wind(Cell(c.row, "v"))),
                             fraction >>
           /\ c.fn = "heat_index" => c.args = <<tdb, fraction>>

C13_Witness ==
    /\ df[1].tdb = Fixed(35, 0) /\ df[1].rh = Fixed(40, 0)
    /\ \E c \in CallsOf(1, "utci") : c.args[1] = Fixed(35, 0) /\ c.args[4] = Fixed(0, 400)
    /\ \E c \in CallsOf(1, "heat_index") : c.args = <<Fixed(35, 0), Fixed(0, 400)>>

\* the row passes the completeness check of line 408
PassesGate(j) ==
    LET v_2m == clamp_wind(Cell(j, "v"))
    IN ~IsRaised(v_2m) /\ ~missing_essential(Cell(j, "tdb"), Cell(j, "rh"), v_2m)

\* the rows j and k pass the check and hold the same temperature and humidity
SameHeat(j, k) ==
    /\ PassesGate(j) /\ PassesGate(k)
    /\ df[j].tdb = df[k].tdb /\ df[j].rh = df[k].rh

\* C14 as stated: two rows that pass the completeness check and hold the
\* same temperature and humidity get the same Heat Index and the same Heat
\* Index Stress, whatever their wind and solar radiation.
C14_HeatIndexFrame ==
    \A j \in Calls, k \in Calls :
        SameHeat(j, k) =>
            /\ out[j].series.HeatIndex = out[k].series.HeatIndex
            /\ out[j].series.HeatIndexStress = out[k].series.HeatIndexStress

\* C14, amended: for two such rows heat_index is called with the same
\* arguments, and the Heat Index and Heat Index Stress handed back are the
\* same unless one of the two calls came back all 'N/A' (utci raised for its
\* wind and solar radiation, and the one handler made all four fields 'N/A').
C14_HeatIndexFrameWhenComputed ==
    \A j \in Calls, k \in Calls :
        SameHeat(j, k) =>
            /\ \A c \in CallsOf(j, "heat_index"), d \in CallsOf(k, "heat_index") : c.args = d.args
            /\ (~AllUnavailable(j) /\ ~AllUnavailable(k)) =>
                  /\ out[j].series.HeatIndex = out[k].series.HeatIndex
                  /\ out[j].series.HeatIndexStress = out[k].series.HeatIndexStress

C14_Witness ==
    \E j \in Calls, k \in Calls :
        /\ SameHeat(j, k)
        /\ df[j].v = Fixed(0, 0) /\ df[k].v = Fixed(0, 500)
        /\ df[j].solar = Fixed(0, 0) /\ df[k].solar = Fixed(800, 0)
        /\ out[j].series.UTCI = Fixed(25, 999) /\ out[k].series.UTCI = Fixed(38, 0)
        /\ out[j].series.HeatIndex = Fixed(51, 99) /\ out[k].series.HeatIndex = Fixed(51, 99)

\* C15: the mean radiant temperature every call of utci is given is
\* ((tdb + 273.15)^4 + solar_radiation * 0.7 * 0.5 / 5.67e-8)^0.25 - 273.15
\* to the thousandth of a degree, solar_radiation being 0 where the row has
\* none: with r = tr + 273.15 in thousandths of a kelvin and x the sum under
\* the root in 10^-12 K^4, r^4 <= x < (r + 1)^4.
C15_MeanRadiantTemperature ==
    \A n \in 1..Len(calls) :
        (calls[n].fn = "utci" /\ IsNum(Cell(calls[n].row, "tdb"))) =>
            LET tdb == Cell(calls[n].row, "tdb")
                solar == Cell(calls[n].row, "solar")
                load == IF IsNum(solar) THEN solar.n ELSE 0
                x == BigAdd(BigPow(BigOfInt(tdb.n + 273150), 4),
                            BigDivSmall(BigShift(BigMul(BigOfInt(load), BigOfInt(3500)), 5), 567))
                tr == calls[n].args[2]
            IN /\ IsNum(tr)
               /\ BigLeq(BigPow(BigOfInt(tr.n + 273150), 4), x)
               /\ ~BigLeq(BigPow(BigOfInt(tr.n + 273151), 4), x)

C15_Witness ==
    \E c \in CallsOf(1, "utci") :
        /\ df[1].tdb = Fixed(35, 0) /\ df[1].solar = Fixed(800, 0)
        /\ c.args[2] = Fixed(70, 552)

\* C16: no step of a call changes a cell of the table: the humidity that was
\* divided by 100 and the wind that was clamped are in the row as they were,
\* whether the call returned indices, 'N/A' for a missing cell or 'N/A' for
\* an error.
C16_RowUntouched == [][df' = df]_vars

C16_Witness ==
    /\ Len(out) = 1
    /\ df[1] = [tdb |-> Fixed(35, 0), rh |-> Fixed(40, 0), v |-> Fixed(0, 200), solar |-> None]
    /\ \E c \in CallsOf(1, "utci") : c.args[3] = Fixed(0, 500) /\ c.args[4] = Fixed(0, 400)
    /\ IsNum(out[1].series.UTCI)

\* C17: two calls on rows that hold the same cells hand back the same four
\* fields, whatever call was made before them or between them.
C17_Deterministic ==
    \A j \in Calls, k \in Calls : df[j] = df[k] => out[j] = out[k]

C17_Witness ==
    /\ Len(out) = 3
    /\ df[1] = df[3] /\ df[2] # df[1]
    /\ df[1].solar = Absent /\ df[2].solar = Fixed(800, 0)
    /\ IsNum(out[1].series.UTCI) /\ IsNum(out[1].series.HeatIndex)
    /\ out[3] = out[1] /\ out[2] # out[1]

\* what the call on df[j] hands back when it runs alone, the library being
\* the function utci_lib and hi_lib have recorded: result is it
RunAlone(j, result) ==
    IF ~Reaches(j) THEN result = Returned(NASeries)
    ELSE \E u \in UtciAnswers(j) :
            IF IsRaised(u) THEN result = Returned(NASeries)
            ELSE \E h \in HiAnswers(j) :
                    result = IF IsRaised(h) THEN Returned(NASeries)
                             ELSE Returned(Series(u, h, categorize_utci(u),
                                                  categorize_heat_index(h)))

\* C18: when the calls on the rows of a table run side by side, their steps
\* interleaved in any order, each hands back what it would hand back alone: a
\* function of its own row and of the library, whatever the other rows hold
\* and in whatever order the steps are taken.
C18_Interleaved ==
    \A j \in DOMAIN inv : inv[j].pc = "done" => RunAlone(j, inv[j].result)

C18_Witness ==
    /\ inv # <<>> /\ \A j \in DOMAIN inv : inv[j].pc = "done"
    /\ Len(calls) = 4
    /\ calls[1].row = 2 /\ calls[2].row = 1 /\ calls[3].row = 2 /\ calls[4].row = 1
    /\ IsNum(inv[1].result.series.UTCI) /\ IsNum(inv[2].result.series.UTCI)
    /\ inv[1].result # inv[2].result

\* the cells of row j other than the wind let the call get as far as utci
OtherCellsFine(j) ==
    /\ Cell(j, "tdb").k \in {"num", "inf"}
    /\ IsNum(Cell(j, "rh"))
    /\ Cell(j, "solar") # NA

\* C19: for every row whose wind is a number, the wind at 2 m the later
\* steps work with is the larger of that number and 0.4: a wind of 0 or
\* below is not turned away (utci is called all the same) and counts as 0.4,
\* a wind of 0.4 or above counts as it is.
C19_ClampIsMinimum ==
    \A j \in Calls :
        IsNum(Cell(j, "v")) =>
            LET v == Cell(j, "v")
                v_2m == IF v.n >= 400 THEN v ELSE Fixed(0, 400)
            IN /\ OtherCellsFine(j) => CallsOf(j, "utci") # {}
               /\ \A c \in CallsOf(j, "utci") : c.args[3] = wind_at_10m(v_2m)

C19_Witness ==
    \E j \in Calls :
        /\ df[j].v = Fixed(0, 0) /\ OtherCellsFine(j)
        /\ \E c \in CallsOf(j, "utci") : c.args[3] = wind_at_10m(Fixed(0, 400))
        /\ IsNum(out[j].series.UTCI)

\* calculate_indices with the completeness check made first, on the wind as
\* the row has it, and the clamp after it: how the call ends ("missing",
\* "raised" or "ready") and the arguments utci is then called with
gate_then_clamp(row) ==
    LET tdb == row_get(row, "tdb")
        rh0 == row_get(row, "rh")
        v == row_get(row, "v")
        v_2m == clamp_wind(v)
        rh == rh_fraction(rh0)
        v_10m == wind_at_10m(v_2m)
        tr == mean_radiant_temperature(tdb, default_solar(row_get(row, "solar")))
    IN IF missing_essential(tdb, rh0, v) THEN [st |-> "missing", args |-> <<>>]
       ELSE IF IsRaised(v_2m) \/ IsRaised(rh) \/ IsRaised(v_10m) \/ IsRaised(tr)
            THEN [st |-> "raised", args |-> <<>>]
       ELSE [st |-> "ready", args |-> <<tdb, tr, v_10m, rh>>]

\* C20: the clamp made before the completeness check, as the code has it,
\* and after it, as the specification has it, come to the same: a call ends
\* all 'N/A' without a library call exactly when the check-first order ends
\* so, and calls utci with the arguments the check-first order gives it; a
\* wind that is None or NaN is not made 0.4 and the call ends all 'N/A'.
C20_GateClampOrder ==
    \A j \in Calls :
        LET g == gate_then_clamp(df[j])
        IN /\ g.st # "ready" => (AllUnavailable(j) /\ CallsOf(j, "utci") = {})
           /\ g.st = "ready" => (\E c \in CallsOf(j, "utci") : c.args = g.args)
           /\ isna(Cell(j, "v")) => (AllUnavailable(j) /\ CallsOf(j, "utci") = {})

C20_Witness ==
    \E j \in Calls :
        /\ df[j].v = NaN /\ OtherCellsFine(j)
        /\ AllUnavailable(j) /\ calls = <<>>

\* how many times the call on df[j] has called fn
TimesCalled(j, fn) ==
    Cardinality({n \in 1..Len(calls) : calls[n].row = j /\ calls[n].fn = fn})

\* the cell is not in the row, is None or is NaN
CellAbsent(j, key) == df[j][key] \in {Absent, None, NaN}

\* C21: a call on a row whose temperature, humidity or wind is absent ends
\* without having called utci or heat_index; and no call calls utci more than
\* once, or heat_index more than once, or heat_index before utci.
C21_NoCallOnShortCircuit ==
    \A j \in 1..Len(df) :
        /\ (CellAbsent(j, "tdb") \/ CellAbsent(j, "rh") \/ CellAbsent(j, "v"))
              => (TimesCalled(j, "utci") = 0 /\ TimesCalled(j, "heat_index") = 0)
        /\ TimesCalled(j, "utci") <= 1
        /\ TimesCalled(j, "heat_index") <= TimesCalled(j, "utci")

C21_Witness ==
    /\ Len(out) = 1
    /\ df[1] = [tdb |-> Fixed(35, 0), rh |-> Fixed(40, 0), v |-> None, solar |-> Fixed(800, 0)]
    /\ AllUnavailable(1)
    /\ TimesCalled(1, "utci") = 0 /\ TimesCalled(1, "heat_index") = 0

\* the vendor sent temperature, humidity and wind of station j as numbers
LiveEssentials(j) ==
    /\ IsNum(stations_data[j].airTemp)
    /\ IsNum(stations_data[j].rh)
    /\ IsNum(stations_data[j].windSpeed)

\* C22: a station whose metadata has numbers for temperature, humidity and
\* wind and no solarRadiation gets from the Weather Hazards page the result
\* of the same station with a solar radiation of 0.
C22_LiveSolarAbsent ==
    \A j \in Calls, k \in Calls :
        ( /\ j \in DOMAIN stations_data /\ k \in DOMAIN stations_data
          /\ LiveEssentials(j)
          /\ stations_data[j].solarRadiation = Absent
          /\ stations_data[k] = [stations_data[j] EXCEPT !.solarRadiation = Fixed(0, 0)] )
            => out[j] = out[k]

UtciLabels == {"No heat stress", "Moderate heat stress", "Strong heat stress",
               "Very strong heat stress", "Extreme heat stress"}

HeatIndexLabels == {"No heat stress", "Caution", "Extreme Caution", "Danger",
                    "Extreme Danger"}

\* C23: each categorizer gives a value that can be ordered (a number or
\* infinity) one of its five labels, and gives 'N/A' to NaN and to nothing
\* else.
C23_Exhaustive ==
    /\ probe.utci # "?" =>
          /\ probe.value # NaN => probe.utci \in UtciLabels
          /\ probe.value = NaN => probe.utci = "N/A"
    /\ probe.hi # "?" =>
          /\ probe.value # NaN => probe.hi \in HeatIndexLabels
          /\ probe.value = NaN => probe.hi = "N/A"

C23_Witness ==
    /\ probe.value = Fixed(32, 0)
    /\ probe.utci = "Strong heat stress" /\ probe.hi = "Caution"

\* the severity of a stress category, the two scales level by level
Severity(label) ==
    CASE label = "No heat stress" -> 1
      [] label \in {"Moderate heat stress", "Caution"} -> 2
      [] label \in {"Strong heat stress", "Extreme Caution"} -> 3
      [] label \in {"Very strong heat stress", "Danger"} -> 4
      [] label \in {"Extreme heat stress", "Extreme Danger"} -> 5
      [] OTHER -> 0

\* x <= y, for two values that can be ordered
Ordered(x, y) ==
    /\ x.k \in {"num", "inf"} /\ y.k \in {"num", "inf"}
    /\ (y.k = "inf" \/ (x.k = "num" /\ x.n <= y.n))

\* C24: of two values x <= y, neither categorizer puts x in a more severe
\* category than y.
C24_Monotone ==
    (probe.of_x # Uncategorized /\ probe.of_y # Uncategorized /\ Ordered(probe.x, probe.y)) =>
        /\ Severity(probe.of_x.utci) >= 1
        /\ Severity(probe.of_x.utci) <= Severity(probe.of_y.utci)
        /\ Severity(probe.of_x.hi) >= 1
        /\ Severity(probe.of_x.hi) <= Severity(probe.of_y.hi)

C24_Witness ==
    /\ probe.x = Milli(39399) /\ probe.y = Milli(39400)
    /\ probe.of_x = [utci |-> "Very strong heat stress", hi |-> "Extreme Caution"]
    /\ probe.of_y = [utci |-> "Very strong heat stress", hi |-> "Danger"]

\* C25: but for the moment between lines 30 and 31 of
\* connect_to_weather_stations, a session that holds station_status holds
\* station_count and access_token too, whatever script runs and calls came
\* before and however they ended; and no caller reads a key that is missing.
C25_SessionKeys ==
    /\ pc # "KeyError"
    /\ (Has("station_status") /\ pc # "store_count")
          => (Has("station_count") /\ Has("access_token"))

C25_Witness ==
    /\ pc = "idle" /\ loc.caller = "page"
    /\ Len(http) >= 3 /\ ~http[1].ok
    /\ Has("station_status") /\ Has("station_count") /\ Has("access_token")
    /\ out = <<"st.success">>

\* C26: while the session holds access_token and station_status no request
\* is sent, and a call of connect_to_weather_stations returns at once and
\* leaves the session as it is.
C26_CachedConnect ==
    [][ (Has("access_token") /\ Has("station_status")) =>
            /\ http' = http
            /\ pc = "connect" => (session' = session /\ pc' = "read") ]_vars

C26_Witness ==
    /\ i = 3 /\ pc = "read" /\ loc.caller = "direct"
    /\ Len(http) = 2 /\ http[1].ok /\ http[2].ok
    /\ Has("access_token") /\ Has("station_status") /\ Has("station_count")

\* C27: once the session holds access_token, no step sends a token request
\* or changes the stored token, and get_access_token hands the stored token
\* to its caller: a token stored by an attempt whose station request failed
\* is the token of every later attempt.
C27_TokenReuse ==
    [][ Has("access_token") =>
            /\ "access_token" \in DOMAIN session'
            /\ session'["access_token"] = session["access_token"]
            /\ {n \in 1..Len(http') : http'[n].req = "token"} = TokenRequests
            /\ pc = "token" => loc'.access_token = session["access_token"] ]_vars

C27_Witness ==
    /\ Len(http) = 3
    /\ http[1] = Request("token", TRUE)
    /\ http[2] = Request("stations", FALSE)
    /\ http[3] = Request("stations", TRUE)
    /\ i = 3 /\ loc.access_token = 1 /\ session["access_token"] = 1

\* C28: when the token request, the station request or the making of the
\* table fails, the error is shown, the script run stops, and the session
\* holds neither station_status nor station_count afterwards; what the
\* session holds as station_status is always the whole table of the list
\* that was fetched, beside the length of that list.
C28_FailedConnect ==
    [][ /\ pc = "error" =>
              /\ out' = out \o <<"st.error", "st.stop">>
              /\ pc' = "idle"
              /\ "station_status" \notin DOMAIN session'
              /\ "station_count" \notin DOMAIN session'
        /\ Has("station_status") =>
              session["station_status"] = process_station_data(stations_data)
        /\ Has("station_count") =>
              (Has("station_status") /\ session["station_count"] = Len(stations_data)) ]_vars

C28_Witness ==
    /\ pc = "idle" /\ out = <<"st.error", "st.stop">>
    /\ http = <<Request("token", TRUE), Request("stations", TRUE)>>
    /\ stations_data = <<Station1, Station2>>
    /\ Has("access_token") /\ ~Has("station_status") /\ ~Has("station_count")

\* C29: once a script run of the Monthly Reports page is past the check of
\* the selected month, previous_month is the selected month and each of the
\* three stored prompts is empty or was generated for the selected month (a
\* prompt kept from another month has been deleted); so is every prompt the
\* run displays.
C29_PromptFreshness ==
    (monthly.runs > 0 /\ pc # "month") =>
        /\ "previous_month" \in DOMAIN session
        /\ session["previous_month"] = monthly.selected
        /\ \A k \in {"combined_temp_analysis_prompt", "precipitation_analysis_prompt",
                     "wind_analysis_prompt"} :
              (k \in DOMAIN session /\ session[k] # "") => session[k] = monthly.selected
        /\ \A n \in 1..Len(out) : out[n].prompt = monthly.selected

C29_Witness ==
    /\ pc = "idle" /\ monthly.cleared /\ monthly.button = "wind"
    /\ session["wind_analysis_prompt"] = monthly.selected
    /\ session["combined_temp_analysis_prompt"] = ""
    /\ out = <<[key |-> "wind_analysis_prompt", prompt |-> monthly.selected]>>

\* the colour of the five levels of either scale
LevelColor(level) ==
    CASE level = 1 -> "green" [] level = 2 -> "yellow" [] level = 3 -> "orange"
      [] level = 4 -> "red" [] level = 5 -> "darkred" [] OTHER -> "grey"

\* C30: the marker of every station is made without an exception; it shows
\* 'N/A' in grey exactly when the selected index is 'N/A', and otherwise the
\* index as a whole number within half a degree of it, in the colour of the
\* level of its stress category.
C30_MarkerRendering ==
    \A n \in DOMAIN markers :
        LET m == markers[n]
        IN /\ ~IsRaised(m.display)
           /\ (m.display = NA /\ m.color = "grey") <=> m.value = NA
           /\ m.value # NA =>
                 /\ IsNum(m.display) /\ m.display.n % 1000 = 0
                 /\ 2 * m.display.n - 2 * m.value.n \in -1000..1000
                 /\ m.color = LevelColor(Severity(m.stress))

====
